---- MODULE Spec2Model ----
(***************************************************************************)
(* A model of r2pickledec: the pickle virtual machine of pickle_dec.c      *)
(* (objects, operation records, stacks, memo, the opcode handlers and the  *)
(* run loop) and the pseudocode renderer of dump.c.                        *)
(*                                                                         *)
(* Memory is a heap of PyObj records and a heap of PyOper records; a       *)
(* pointer is an index into its heap and 0 is NULL.  An RList is the       *)
(* sequence of its elements.  Every handler is an operator from a machine  *)
(* record to a machine record whose field ok is the handler's return       *)
(* value; an action runs one whole handler.                                *)
(***************************************************************************)
EXTENDS Integers, Sequences, FiniteSets, TLC

\* ---------------------------------------------------------------- bounds
\* number of opcodes of an input that has no scripted prefix
MaxOps == 3
\* number of opcodes that may follow a scripted prefix
MaxTail == 1
\* memo slots an immediate of BINPUT / BINGET may name: 0..MaxLoc
MaxLoc == 1

\* ------------------------------------------------------ program constants
\* memo_id of an object never stored in the memo: all 64 bits set, which
\* obj_varname reads into an st64
UT64_MAX == -1

NULL == 0

VARIABLES
    stack,      \* pvm->stack: the current evaluation stack
    metastack,  \* pvm->metastack: the stacks saved by MARK
    popstack,   \* pvm->popstack: objects discarded by POP / POP_MARK
    memo,       \* pvm->memo: slot -> object (NULL when stored from an empty stack)
    heap,       \* every PyObj ever allocated
    opers,      \* every PyOper ever allocated
    recurse,    \* pvm->recurse: generation counter of the split pass
    phase,      \* where pickle_dec is: run, stopped, failed, dumped, dumped2
    prog,       \* scripted opcodes of the input not yet executed
    budget,     \* opcodes the input may still hold after the scripted ones
    lastop,     \* the last opcode run_pvm executed and what its handler returned
    cons,       \* text r_cons received from the renderer (first run)
    cons2,      \* text r_cons received from a second run of the renderer
    dumpret     \* what dump_machine returned: "none", "true", "false", "overflow"

vars == <<stack, metastack, popstack, memo, heap, opers, recurse, phase, prog,
          budget, lastop, cons, cons2, dumpret>>

\* ------------------------------------------------------------- RList
Last(l) == IF Len(l) = 0 THEN NULL ELSE l[Len(l)]
Front(l) == SubSeq(l, 1, Len(l) - 1)
Range(f) == {f[x] : x \in DOMAIN f}

\* --------------------------------------------------------- the two heaps
PyObjRec(type) ==
    [type |-> type, iter |-> <<>>, what |-> <<>>, reduce |-> NULL,
     module |-> NULL, name |-> NULL, val |-> 0,
     memo_id |-> UT64_MAX, refcnt |-> 0, varname |-> <<>>, recurse |-> 0,
     live |-> TRUE]

PyOperRec(op) == [op |-> op, stack |-> <<>>, refcnt |-> 0, live |-> TRUE]

IterTypes == {"PY_TUPLE", "PY_LIST", "PY_DICT", "PY_SET", "PY_FROZEN_SET"}

\* the machine record the handlers work on: ok is the handler's return value,
\* r the pointer a helper returns, bad tells that a free function was handed
\* memory that was released before
S == [stack |-> stack, metastack |-> metastack, popstack |-> popstack,
      memo |-> memo, heap |-> heap, opers |-> opers, recurse |-> recurse,
      ok |-> TRUE, r |-> NULL, bad |-> FALSE]

Fail(s) == [s EXCEPT !.ok = FALSE]

\* ------------------------------------------------------------- freeing
RECURSIVE py_obj_free(_, _), py_obj_deep_free(_, _), pyop_free(_, _),
          pyop_deep_free(_, _), py_obj_free_internal(_, _, _),
          FreeObjs(_, _, _, _), FreeOps(_, _, _, _)

\* list_free_with (l, f) for a list of objects: f on each element, head first
FreeObjs(s, l, i, deep) ==
    IF i > Len(l) THEN s
    ELSE FreeObjs(IF deep THEN py_obj_deep_free(s, l[i]) ELSE py_obj_free(s, l[i]),
                  l, i + 1, deep)

\* list_free_with (l, f) for a list of operation records
FreeOps(s, l, i, deep) ==
    IF i > Len(l) THEN s
    ELSE FreeOps(IF deep THEN pyop_deep_free(s, l[i]) ELSE pyop_free(s, l[i]),
                 l, i + 1, deep)

py_obj_free_internal(s, o, deep) ==
    LET h == s.heap[o]
        s0 == [s EXCEPT !.heap[o].varname = <<>>]
    IN  CASE h.type \in IterTypes ->
                FreeObjs([s0 EXCEPT !.heap[o].iter = <<>>], h.iter, 1, deep)
          [] h.type = "PY_SPLIT" ->
                LET s1 == [s0 EXCEPT !.heap[o].reduce = NULL]
                IN  IF deep THEN pyop_deep_free(s1, h.reduce)
                    ELSE pyop_free(s1, h.reduce)
          [] h.type = "PY_FUNC" ->
                LET s1 == [s0 EXCEPT !.heap[o].module = NULL, !.heap[o].name = NULL]
                    s2 == IF deep THEN py_obj_deep_free(s1, h.name)
                          ELSE py_obj_free(s1, h.name)
                IN  IF deep THEN py_obj_deep_free(s2, h.module)
                    ELSE py_obj_free(s2, h.module)
          [] h.type = "PY_WHAT" ->
                FreeOps([s0 EXCEPT !.heap[o].what = <<>>], h.what, 1, deep)
          [] OTHER -> s0

\* the free function reads and decrements the object o: released memory when
\* o is not live
TouchObj(s, o) == IF s.heap[o].live THEN s ELSE [s EXCEPT !.bad = TRUE]
TouchOper(s, p) == IF s.opers[p].live THEN s ELSE [s EXCEPT !.bad = TRUE]

py_obj_free(s, o) ==
    IF o = NULL THEN s
    ELSE LET old == s.heap[o].refcnt
             s1 == [TouchObj(s, o) EXCEPT !.heap[o].refcnt = old - 1]
         IN  IF old <= 0
             THEN [py_obj_free_internal(s1, o, FALSE) EXCEPT !.heap[o].live = FALSE]
             ELSE s1

\* a deep free that releases the object at every reference to it
py_obj_deep_free_always(s, o) ==
    IF o = NULL THEN s
    ELSE LET s1 == py_obj_free_internal(TouchObj(s, o), o, TRUE)
         IN  [s1 EXCEPT !.heap[o].refcnt = @ - 1, !.heap[o].live = FALSE]

py_obj_deep_free(s, o) ==
    IF o = NULL THEN s
    ELSE LET s1 == py_obj_free_internal(TouchObj(s, o), o, TRUE)
             old == s1.heap[o].refcnt
             s2 == [s1 EXCEPT !.heap[o].refcnt = old - 1]
         IN  IF old <= 0 THEN [s2 EXCEPT !.heap[o].live = FALSE] ELSE s2

pyop_free(s, p) ==
    IF p = NULL THEN s
    ELSE LET old == s.opers[p].refcnt
             s1 == [TouchOper(s, p) EXCEPT !.opers[p].refcnt = old - 1]
         IN  IF old <= 0
             THEN LET tmp == s1.opers[p].stack
                      s2 == [s1 EXCEPT !.opers[p].stack = <<>>]
                  IN  [FreeObjs(s2, tmp, 1, FALSE) EXCEPT !.opers[p].live = FALSE]
             ELSE s1

pyop_deep_free(s, p) ==
    IF p = NULL THEN s
    ELSE LET tmp == s.opers[p].stack
             s1 == FreeObjs([TouchOper(s, p) EXCEPT !.opers[p].stack = <<>>], tmp, 1, TRUE)
             old == s1.opers[p].refcnt
             s2 == [s1 EXCEPT !.opers[p].refcnt = old - 1]
         IN  IF old <= 0 THEN [s2 EXCEPT !.opers[p].live = FALSE] ELSE s2

\* ------------------------------------------------------- object helpers
Ret(s, p) == [s EXCEPT !.r = p]

\* R_NEW0 (PyObj) with type and memo_id set; r is the new object
py_obj_new(s, type) ==
    [s EXCEPT !.heap = Append(@, PyObjRec(type)), !.r = Len(s.heap) + 1]

\* r is the new operation record; its stack is empty (or NULL)
py_oper_new(s, op) ==
    [s EXCEPT !.opers = Append(@, PyOperRec(op)), !.r = Len(s.opers) + 1]

py_iter_new(s, type) == py_obj_new(s, type)

\* a PY_WHAT whose history is one FAKE_INIT holding obj
py_what_new(s, obj) ==
    LET s1 == py_obj_new(s, "PY_WHAT")
        wat == s1.r
        s2 == py_oper_new(s1, "OP_FAKE_INIT")
        pop == s2.r
    IN  [s2 EXCEPT !.heap[wat].what = <<pop>>,
                   !.opers[pop].stack = <<obj>>,
                   !.r = wat]

\* turn the object at the top of list l into a PY_WHAT, if not already one.
\* The result holds the machine (r: the PY_WHAT or NULL) and the list.
stack_top_to_what(s, l) ==
    IF Len(l) > 0 /\ Last(l) # NULL
    THEN IF s.heap[Last(l)].type = "PY_WHAT"
         THEN [s |-> Ret(s, Last(l)), l |-> l]
         ELSE LET s1 == py_what_new(s, Last(l))
              IN  [s |-> s1, l |-> Append(Front(l), s1.r)]
    ELSE [s |-> Ret(s, NULL), l |-> l]

\* the top n objects of the stack, oldest first, when more than n are there
list_pop_n(l, n) ==
    IF Len(l) > n THEN SubSeq(l, Len(l) - n + 1, Len(l)) ELSE <<>>

\* ------------------------------------------------------------ split pass
\* itter_add_split that keeps a PY_SPLIT already at the end
itter_add_split_keep(s, o, split) ==
    [s EXCEPT !.heap[o].iter = Append(@, split),
              !.heap[split].refcnt = @ + 1]

itter_add_split(s, o, split) ==
    LET list == s.heap[o].iter
        lastobj == Last(list)
        dup == lastobj # NULL /\ s.heap[lastobj].type = "PY_SPLIT"
        s1 == IF dup
              THEN py_obj_free([s EXCEPT !.heap[o].iter = Front(list)], lastobj)
              ELSE s
    IN  [s1 EXCEPT !.heap[o].iter = Append(@, split),
                   !.heap[split].refcnt = @ + 1]

RECURSIVE add_splits(_, _, _), split_iter_recures(_, _, _, _),
          split_what_recures(_, _, _, _)

split_iter_recures(s, list, i, split) ==
    IF i > Len(list) THEN s
    ELSE LET s1 == add_splits(s, list[i], split)
         IN  IF s1.ok THEN split_iter_recures(s1, list, i + 1, split) ELSE s1

split_what_recures(s, list, i, split) ==
    IF i > Len(list) THEN s
    ELSE LET s1 == split_iter_recures(s, s.opers[list[i]].stack, 1, split)
         IN  IF s1.ok THEN split_what_recures(s1, list, i + 1, split) ELSE s1

add_splits(s, obj, split) ==
    IF s.heap[obj].recurse = s.recurse THEN s
    ELSE LET s0 == [s EXCEPT !.heap[obj].recurse = s.recurse]
             type == s.heap[obj].type
         IN  CASE type \in IterTypes ->
                    LET s1 == split_iter_recures(s0, s0.heap[obj].iter, 1, split)
                    IN  IF ~s1.ok THEN s1
                        ELSE IF type = "PY_TUPLE" THEN s1
                        ELSE itter_add_split(s1, obj, split)
               [] type = "PY_WHAT" ->
                    split_what_recures(s0, s0.heap[obj].what, 1, split)
               [] OTHER -> s0

\* split_reduce that keeps its own reference to the PY_SPLIT
split_reduce_keepref(s, pop) ==
    LET s1 == py_obj_new(s, "PY_SPLIT")
        split == s1.r
        obj == Last(s.opers[pop].stack)
    IN  IF obj # NULL
        THEN add_splits([s1 EXCEPT !.heap[split].reduce = pop,
                                   !.opers[pop].refcnt = @ + 1,
                                   !.recurse = @ + 1], obj, split)
        ELSE Fail(s1)

split_reduce(s, pop) ==
    LET s1 == py_obj_new(s, "PY_SPLIT")
        split == s1.r
        obj == Last(s.opers[pop].stack)
    IN  IF obj # NULL
        THEN LET s2 == [s1 EXCEPT !.heap[split].reduce = pop,
                                  !.opers[pop].refcnt = @ + 1,
                                  !.recurse = @ + 1]
                 s3 == add_splits(s2, obj, split)
             IN  [py_obj_free(s3, split) EXCEPT !.ok = s3.ok]
        ELSE Fail(s1)

\* --------------------------------------------------- recording operations
\* py_what_addop with the record put at the head of the history instead of
\* its tail
py_what_addop_prepend(s, argc, op) ==
    LET s1 == py_oper_new(s, op)
        pop == s1.r
        has == Len(s.stack) > argc
        args == list_pop_n(s.stack, argc)
        rest == IF has THEN SubSeq(s.stack, 1, Len(s.stack) - argc) ELSE s.stack
        w == stack_top_to_what(s1, rest)
        obj == w.s.r
    IN  IF has /\ obj # NULL
        THEN LET s2 == [w.s EXCEPT !.stack = w.l,
                                   !.heap[obj].what = <<pop>> \o @,
                                   !.opers[pop].stack = args]
             IN  IF op = "OP_REDUCE" THEN split_reduce(s2, pop) ELSE s2
        ELSE Fail(pyop_free([w.s EXCEPT !.stack = w.l \o args], pop))

py_what_addop(s, argc, op) ==
    LET s1 == py_oper_new(s, op)
        pop == s1.r
        has == Len(s.stack) > argc
        args == list_pop_n(s.stack, argc)
        rest == IF has THEN SubSeq(s.stack, 1, Len(s.stack) - argc) ELSE s.stack
        w == stack_top_to_what(s1, rest)
        obj == w.s.r
    IN  IF has /\ obj # NULL
        THEN LET s2 == [w.s EXCEPT !.stack = w.l,
                                   !.heap[obj].what = Append(@, pop),
                                   !.opers[pop].stack = args]
             IN  IF op = "OP_REDUCE" THEN split_reduce(s2, pop) ELSE s2
        ELSE \* cleanup: the popped arguments are joined back, pop is freed
             Fail(pyop_free([w.s EXCEPT !.stack = w.l \o args], pop))

py_what_addop_stack(s, op) ==
    IF Len(s.metastack) > 0
    THEN LET oldstack == Last(s.metastack)
             s0 == [s EXCEPT !.metastack = Front(@)]
             s1 == py_oper_new(s0, op)
             pop == s1.r
             w == stack_top_to_what(s1, oldstack)
             obj == w.s.r
         IN  IF obj # NULL
             THEN [w.s EXCEPT !.heap[obj].what = Append(@, pop),
                              !.opers[pop].stack = s.stack,
                              !.stack = w.l]
             ELSE Fail(pyop_free(w.s, pop))
    ELSE Fail(s)

\* ------------------------------------------------------------------ memo
\* ht_up_update: the slot's previous value, if any, goes through _kv_free
memo_put(s, loc) ==
    IF loc >= 0
    THEN LET obj == Last(s.stack)   \* obj_stack_peek (stack, true)
             s1 == IF obj # NULL THEN [s EXCEPT !.heap[obj].refcnt = @ + 1] ELSE s
             s2 == IF loc \in DOMAIN s1.memo THEN py_obj_free(s1, s1.memo[loc]) ELSE s1
         IN  [s2 EXCEPT !.memo = [k \in (DOMAIN s.memo) \cup {loc} |->
                                     IF k = loc THEN obj ELSE s.memo[k]]]
    ELSE Fail(s)

\* the slot MEMOIZE writes: pvm->memo->count
op_memorize(s) == memo_put(s, Cardinality(DOMAIN s.memo))

\* memo_get that pushes the object without counting the new reference
memo_get_noref(s, loc) ==
    IF loc >= 0 /\ loc \in DOMAIN s.memo /\ s.memo[loc] # NULL
    THEN [s EXCEPT !.stack = Append(@, s.memo[loc])]
    ELSE Fail(s)

memo_get(s, loc) ==
    IF loc >= 0 /\ loc \in DOMAIN s.memo /\ s.memo[loc] # NULL
    THEN LET obj == s.memo[loc]
         IN  [s EXCEPT !.stack = Append(@, obj), !.heap[obj].refcnt = @ + 1]
    ELSE Fail(s)

\* DUP that pushes a copy of the top object
op_dup_copy(s) ==
    LET obj == Last(s.stack)
    IN  IF obj # NULL
        THEN LET s1 == py_obj_new(s, s.heap[obj].type)
             IN  [s1 EXCEPT !.heap[s1.r].iter = s.heap[obj].iter,
                            !.stack = Append(@, s1.r)]
        ELSE Fail(s)

op_dup(s) ==
    LET obj == Last(s.stack)
    IN  IF obj # NULL
        THEN [s EXCEPT !.stack = Append(@, obj), !.heap[obj].refcnt = @ + 1]
        ELSE Fail(s)

\* ----------------------------------------------------------- containers
\* py_iter_append_mark that tests the number of dict elements after it took
\* the saved stack off metastack
py_iter_append_mark_latecheck(s, obj, t) ==
    IF obj # NULL /\ s.heap[obj].type = t
    THEN IF Len(s.metastack) = 0 THEN Fail(s)
         ELSE IF t = "PY_DICT" /\ Len(s.stack) % 2 = 1
         THEN Fail([s EXCEPT !.stack = Last(s.metastack), !.metastack = Front(@)])
         ELSE [s EXCEPT !.heap[obj].iter = @ \o s.stack,
                        !.stack = Last(s.metastack),
                        !.metastack = Front(@)]
    ELSE Fail(s)

\* py_iter_append_mark that reads the saved stack without taking it off
\* metastack
py_iter_append_mark_peek(s, obj, t) ==
    IF obj # NULL /\ s.heap[obj].type = t
    THEN IF t = "PY_DICT" /\ Len(s.stack) % 2 = 1 THEN Fail(s)
         ELSE IF Len(s.metastack) = 0 THEN Fail(s)
         ELSE [s EXCEPT !.heap[obj].iter = @ \o s.stack,
                        !.stack = Last(s.metastack)]
    ELSE Fail(s)

\* everything since the last MARK is moved into obj; the stack saved by that
\* MARK becomes the current stack again
py_iter_append_mark(s, obj, t) ==
    IF obj # NULL /\ s.heap[obj].type = t
    THEN IF t = "PY_DICT" /\ Len(s.stack) % 2 = 1 THEN Fail(s)
         ELSE IF Len(s.metastack) = 0 THEN Fail(s)
         ELSE [s EXCEPT !.heap[obj].iter = @ \o s.stack,
                        !.stack = Last(s.metastack),
                        !.metastack = Front(@)]
    ELSE Fail(s)

\* r is the new container, or NULL
iter_to_mark(s, t) ==
    LET s1 == py_iter_new(s, t)
        obj == s1.r
        s2 == py_iter_append_mark(s1, obj, t)
    IN  IF s2.ok THEN Ret(s2, obj)
        ELSE [py_obj_free(s2, obj) EXCEPT !.r = NULL, !.ok = TRUE]

RECURSIVE Reverse(_)
Reverse(seq) == IF seq = <<>> THEN <<>> ELSE Append(Reverse(Tail(seq)), Head(seq))

\* the objects since the mark joined top first
op_type_create_append_rev(s, t) ==
    LET s1 == iter_to_mark(s, t)
    IN  IF s1.r # NULL
        THEN [s1 EXCEPT !.stack = Append(@, s1.r), !.heap[s1.r].iter = Reverse(@)]
        ELSE Fail(s1)

op_type_create_append(s, t) ==
    LET s1 == iter_to_mark(s, t)
    IN  IF s1.r # NULL THEN [s1 EXCEPT !.stack = Append(@, s1.r)] ELSE Fail(s1)

\* the popped objects appended in the order they are popped
op_iter_n_append(s, n, type) ==
    LET s1 == py_iter_new(s, type)
        obj == s1.r
        k == IF Len(s.stack) < n THEN Len(s.stack) ELSE n
        items == Reverse(SubSeq(s.stack, Len(s.stack) - k + 1, Len(s.stack)))
        s2 == [s1 EXCEPT !.heap[obj].iter = items,
                         !.stack = SubSeq(s.stack, 1, Len(s.stack) - k)]
    IN  IF k < n THEN Fail(s2) ELSE [s2 EXCEPT !.stack = Append(@, obj)]

\* EMPTY_x (n = 0) and TUPLE1..3: with fewer than n objects the loop returns
\* at the first failed pop, after the objects it did pop
op_iter_n(s, n, type) ==
    LET s1 == py_iter_new(s, type)
        obj == s1.r
        k == IF Len(s.stack) < n THEN Len(s.stack) ELSE n
        items == SubSeq(s.stack, Len(s.stack) - k + 1, Len(s.stack))
        s2 == [s1 EXCEPT !.heap[obj].iter = items,
                         !.stack = SubSeq(s.stack, 1, Len(s.stack) - k)]
    IN  IF k < n THEN Fail(s2) ELSE [s2 EXCEPT !.stack = Append(@, obj)]

\* is the object argc places below the top of objl of this type
stack_n_expected_type(s, objl, argc, type) ==
    /\ Len(objl) > argc
    /\ s.heap[objl[Len(objl) - argc]].type = type

push_to_stack_iter(s, type, obj) ==
    LET iterobj == Last(s.stack)
    IN  IF iterobj # NULL /\ s.heap[iterobj].type = type
        THEN [s EXCEPT !.heap[iterobj].iter = Append(@, obj)]
        ELSE Fail(s)

\* APPEND that puts the object at the head of the list
op_append_head(s) ==
    IF Len(s.stack) >= 2
    THEN IF ~stack_n_expected_type(s, s.stack, 1, "PY_LIST")
         THEN py_what_addop(s, 1, "OP_APPEND")
         ELSE LET l == s.stack[Len(s.stack) - 1]
              IN  [s EXCEPT !.stack = Front(@), !.heap[l].iter = <<Last(s.stack)>> \o @]
    ELSE Fail(s)

op_append(s) ==
    IF Len(s.stack) >= 2
    THEN IF ~stack_n_expected_type(s, s.stack, 1, "PY_LIST")
         THEN py_what_addop(s, 1, "OP_APPEND")
         ELSE push_to_stack_iter([s EXCEPT !.stack = Front(@)], "PY_LIST", Last(s.stack))
    ELSE Fail(s)

op_appends(s, op, type) ==
    LET prev_stack == Last(s.metastack)
    IN  IF Len(s.metastack) > 0 /\ Len(prev_stack) > 0
        THEN LET obj == Last(prev_stack)
             IN  IF s.heap[obj].type # type THEN py_what_addop_stack(s, op)
                 ELSE py_iter_append_mark(s, obj, type)
        ELSE Fail(s)

op_setitem(s) ==
    IF Len(s.stack) >= 3
    THEN IF ~stack_n_expected_type(s, s.stack, 2, "PY_DICT")
         THEN py_what_addop(s, 2, "OP_SETITEM")
         ELSE LET value == s.stack[Len(s.stack)]
                  key == s.stack[Len(s.stack) - 1]
                  obj == s.stack[Len(s.stack) - 2]
              IN  [s EXCEPT !.stack = SubSeq(@, 1, Len(@) - 2),
                            !.heap[obj].iter = @ \o <<key, value>>]
    ELSE Fail(s)

op_setitems(s) ==
    LET prev_stack == Last(s.metastack)
    IN  IF Len(s.metastack) > 0 /\ Len(prev_stack) > 0
        THEN LET obj == Last(prev_stack)
             IN  IF s.heap[obj].type = "PY_DICT"
                 THEN py_iter_append_mark(s, obj, "PY_DICT")
                 ELSE py_what_addop_stack(s, "OP_SETITEMS")
        ELSE Fail(s)

\* -------------------------------------------------------------- scalars
\* NONE, NEWTRUE / NEWFALSE, the integer, float and string opcodes: a fresh
\* object holding the decoded immediate
push_scalar(s, type, val) ==
    LET s1 == py_obj_new(s, type)
    IN  [s1 EXCEPT !.heap[s1.r].val = val, !.stack = Append(@, s1.r)]

op_none(s) == push_scalar(s, "PY_NONE", 0)
op_newbool(s, py_bool) == push_scalar(s, "PY_BOOL", IF py_bool THEN 1 ELSE 0)
push_int_type(s, val) == push_scalar(s, "PY_INT", val)
op_float(s, val) == push_scalar(s, "PY_FLOAT", val)
push_str(s, val) == push_scalar(s, "PY_STR", val)

\* ---------------------------------------------------------------- stacks
op_mark(s) == [s EXCEPT !.metastack = Append(@, s.stack), !.stack = <<>>]

\* op_pop that takes the object off the stack and keeps it nowhere
op_pop_drop(s) ==
    IF Len(s.stack) > 0 THEN [s EXCEPT !.stack = Front(@)] ELSE Fail(s)

op_pop(s) ==
    IF Len(s.stack) > 0
    THEN [s EXCEPT !.stack = Front(@), !.popstack = Append(@, Last(s.stack))]
    ELSE Fail(s)

\* op_pop_mark without the test of metastack's length
op_pop_mark_nocheck(s) ==
    [s EXCEPT !.popstack = @ \o s.stack,
              !.stack = IF Len(s.metastack) > 0 THEN Last(s.metastack) ELSE <<>>,
              !.metastack = IF Len(@) > 0 THEN Front(@) ELSE @]

op_pop_mark(s) ==
    IF Len(s.metastack) > 0
    THEN [s EXCEPT !.popstack = @ \o s.stack,
                   !.stack = Last(s.metastack),
                   !.metastack = Front(@)]
    ELSE Fail(s)

\* --------------------------------------------------------------- classes
str_to_pystr(s, val) ==
    LET s1 == py_obj_new(s, "PY_STR")
    IN  [s1 EXCEPT !.heap[s1.r].val = val]

\* a PY_FUNC whose module and name are the two words of the mnemonic
glob_obj(s, val) ==
    LET s1 == py_obj_new(s, "PY_FUNC")
        obj == s1.r
        s2 == str_to_pystr(s1, val)
        s3 == str_to_pystr([s2 EXCEPT !.heap[obj].module = s2.r], val)
    IN  [s3 EXCEPT !.heap[obj].name = s3.r, !.r = obj]

op_global(s, val) ==
    LET s1 == glob_obj(s, val)
    IN  [s1 EXCEPT !.stack = Append(@, s1.r)]

op_stack_global(s) ==
    IF Len(s.stack) >= 2
    THEN LET s1 == py_obj_new(s, "PY_FUNC")
             obj == s1.r
         IN  [s1 EXCEPT !.heap[obj].name = s.stack[Len(s.stack)],
                        !.heap[obj].module = s.stack[Len(s.stack) - 1],
                        !.stack = Append(SubSeq(@, 1, Len(@) - 2), obj)]
    ELSE Fail(s)

insantiate(s, o, cls, args) ==
    IF args # NULL /\ cls # NULL
    THEN py_what_addop([s EXCEPT !.stack = @ \o <<cls, args>>], 1, o)
    ELSE Fail(py_obj_free(py_obj_free(s, args), cls))

op_inst(s, val) ==
    LET s1 == glob_obj(s, val)
        cls == s1.r
        s2 == iter_to_mark(s1, "PY_LIST")
    IN  insantiate(s2, "OP_INST", cls, s2.r)

op_obj(s) ==
    LET cls == IF Len(s.stack) > 0 THEN s.stack[1] ELSE NULL   \* r_list_pop_head
        s1 == [s EXCEPT !.stack = IF Len(@) > 0 THEN Tail(@) ELSE @]
        s2 == iter_to_mark(s1, "PY_LIST")
    IN  insantiate(s2, "OP_OBJ", cls, s2.r)

\* ht_up_free: every value of the memo goes through _kv_free
RECURSIVE FreeMemo(_, _)
FreeMemo(s, slots) ==
    IF slots = {} THEN s
    ELSE LET k == CHOOSE x \in slots : \A y \in slots : x <= y
         IN  FreeMemo(py_obj_free(s, s.memo[k]), slots \ {k})

empty_memo(s) == [FreeMemo(s, DOMAIN s.memo) EXCEPT !.memo = <<>>]

\* list_free_with (pvm->metastack, metastack_deep_free): the saved stacks,
\* oldest first, each by deep free
RECURSIVE FreeStacks(_, _, _)
FreeStacks(s, ll, i) ==
    IF i > Len(ll) THEN s
    ELSE FreeStacks(FreeObjs(s, ll[i], 1, TRUE), ll, i + 1)

\* the memo by py_obj_free, then stack, metastack and popstack by deep free
empty_state(s) ==
    LET s1 == empty_memo(s)
        s2 == FreeObjs([s1 EXCEPT !.stack = <<>>], s1.stack, 1, TRUE)
        s3 == FreeStacks([s2 EXCEPT !.metastack = <<>>], s2.metastack, 1)
    IN  FreeObjs([s3 EXCEPT !.popstack = <<>>], s3.popstack, 1, TRUE)

\* ============================================================ dump.c
\* Text is a sequence of tokens <<text, tag>>.  The tag of "name" (a variable
\* name used as a value), "assign" (`<name> = `) and "#declared" is the number
\* in var_<number>; the tag of the token that starts the value of an object is
\* the object; the tag of a "##" line is the length it prints.
T(text) == <<text, 0>>
Name(var) == <<"name", var[1]>>
Assign(var) == <<"assign", var[1]>>

\* PrintInfo and what the renderer touches: the objects (their varname), the
\* text given to r_cons, the return value ok of the last dump function, rv of
\* var_pre_print, and over: a call that never returns was made
printer_append(nfo, tok) == [nfo EXCEPT !.out = Append(@, tok)]

printer_drain(nfo) == [nfo EXCEPT !.cons = @ \o nfo.out, !.out = <<>>]

printer_drain_free(nfo) == printer_drain(nfo)

\* obj_varname that numbers every name from varid
obj_varname_counter(nfo, obj) ==
    IF nfo.heap[obj].varname = <<>>
    THEN [nfo EXCEPT !.heap[obj].varname = <<nfo.varid>>, !.varid = @ + 1]
    ELSE nfo

\* the name is var_<memo_id> unless memo_id is 0, then var_<varid++>
obj_varname(nfo, obj) ==
    IF nfo.heap[obj].varname = <<>>
    THEN IF nfo.heap[obj].memo_id # 0
         THEN [nfo EXCEPT !.heap[obj].varname = <<nfo.heap[obj].memo_id>>]
         ELSE [nfo EXCEPT !.heap[obj].varname = <<nfo.varid>>, !.varid = @ + 1]
    ELSE nfo

\* rv: 0 go on with the value, 1 the caller is done
var_pre_print(nfo, obj) ==
    LET var == nfo.heap[obj].varname
    IN  IF nfo.ret
        THEN LET n1 == printer_append(nfo, T("return "))
             IN  IF var # <<>>
                 THEN [printer_append(printer_append(n1, Name(var)), T("\n"))
                          EXCEPT !.rv = 1]
                 ELSE [n1 EXCEPT !.rv = 0]
        ELSE IF nfo.first
        THEN IF var # <<>>
             THEN IF nfo.verbose
                  THEN [printer_append(printer_append(nfo, <<"#declared", var[1]>>),
                                       T("\n")) EXCEPT !.rv = 1]
                  ELSE [nfo EXCEPT !.rv = 1]
             ELSE LET n1 == obj_varname(nfo, obj)
                  IN  [printer_append(n1, Assign(n1.heap[obj].varname)) EXCEPT !.rv = 0]
        ELSE IF var # <<>>
             THEN [printer_append(nfo, Name(var)) EXCEPT !.rv = 1]
             ELSE [nfo EXCEPT !.rv = 0]

newline(nfo) ==
    IF nfo.first \/ nfo.ret THEN printer_append(nfo, T("\n")) ELSE nfo

\* dump_bool, dump_int, dump_str, dump_float, dump_none and dump_func: the
\* value is one token
dump_scalar(nfo, obj, text) ==
    LET n0 == var_pre_print(nfo, obj)
    IN  IF n0.rv # 0 THEN [n0 EXCEPT !.ok = TRUE]
        ELSE [newline(printer_append(n0, <<text, obj>>)) EXCEPT !.ok = TRUE]

dump_bool(nfo, obj) ==
    dump_scalar(nfo, obj, IF nfo.heap[obj].val = 1 THEN "True" ELSE "False")
dump_int(nfo, obj) == dump_scalar(nfo, obj, "%d")
dump_str(nfo, obj) == dump_scalar(nfo, obj, "%s")
dump_float(nfo, obj) == dump_scalar(nfo, obj, "%lf")
dump_none(nfo, obj) == dump_scalar(nfo, obj, "None")
dump_func(nfo, obj) == dump_scalar(nfo, obj, "__import__")

NamedCount(nfo) ==
    Cardinality({o \in DOMAIN nfo.heap : nfo.heap[o].varname # <<>>})

RECURSIVE dump_obj(_, _, _), dump_iter(_, _, _), dump_iter_loop(_, _, _, _),
          dump_iter_dict(_, _, _), dump_iter_dict_loop(_, _, _, _),
          dump_tuple(_, _, _), dump_list(_, _, _), dump_dict(_, _, _),
          dump_what(_, _, _), prepend_obj(_, _, _), dump_oper(_, _, _, _),
          dump_oper_init(_, _, _, _), dump_oper_reduce(_, _, _, _),
          dump_oper_newobj(_, _, _, _), dump_what_loop(_, _, _, _, _)

dump_iter_loop(nfo, list, i, path) ==
    IF i > Len(list) THEN nfo
    ELSE LET n1 == dump_obj(nfo, list[i], path)
         IN  IF ~n1.ok THEN n1
             ELSE dump_iter_loop(IF i # Len(list) THEN printer_append(n1, T(", "))
                                 ELSE n1,
                                 list, i + 1, path)

dump_iter(nfo, obj_iter, path) ==
    LET n1 == dump_iter_loop([nfo EXCEPT !.first = FALSE, !.ret = FALSE, !.ok = TRUE],
                             nfo.heap[obj_iter].iter, 1, path)
    IN  [n1 EXCEPT !.first = nfo.first, !.ret = nfo.ret]

\* keys (odd places) are followed by ": ", values by ", " unless last
dump_iter_dict_loop(nfo, list, i, path) ==
    IF i > Len(list) THEN nfo
    ELSE LET n1 == dump_obj(nfo, list[i], path)
         IN  IF ~n1.ok THEN n1
             ELSE dump_iter_dict_loop(
                      IF i % 2 = 1 THEN printer_append(n1, T(": "))
                      ELSE IF i # Len(list) THEN printer_append(n1, T(", "))
                      ELSE n1,
                      list, i + 1, path)

dump_iter_dict(nfo, obj_iter, path) ==
    LET n1 == dump_iter_dict_loop([nfo EXCEPT !.first = FALSE, !.ret = FALSE, !.ok = TRUE],
                                  nfo.heap[obj_iter].iter, 1, path)
    IN  [n1 EXCEPT !.first = nfo.first, !.ret = nfo.ret]

dump_tuple(nfo, obj, path) ==
    LET n0 == var_pre_print(nfo, obj)
    IN  IF n0.rv # 0 THEN [n0 EXCEPT !.ok = TRUE]
        ELSE LET n1 == dump_iter(printer_append(n0, <<"(", obj>>), obj, path)
             IN  [newline(printer_append(n1, T(")"))) EXCEPT !.ok = n1.ok]

dump_list(nfo, obj, path) ==
    LET n0 == var_pre_print(nfo, obj)
    IN  IF n0.rv # 0 THEN [n0 EXCEPT !.ok = TRUE]
        ELSE LET n1 == dump_iter(printer_append(n0, <<"[", obj>>), obj, path)
             IN  [newline(printer_append(n1, T("]"))) EXCEPT !.ok = n1.ok]

dump_dict(nfo, obj, path) ==
    LET n0 == var_pre_print(nfo, obj)
    IN  IF n0.rv # 0 THEN [n0 EXCEPT !.ok = TRUE]
        ELSE LET n1 == dump_iter_dict(printer_append(n0, <<"{", obj>>), obj, path)
             IN  [newline(printer_append(n1, T("}"))) EXCEPT !.ok = n1.ok]

\* `<vn> = <the pre-upgrade object>`
dump_oper_init(nfo, pop, vn, path) ==
    LET n1 == dump_obj(printer_append(nfo, Assign(vn)),
                       Last(nfo.opers[pop].stack), path)
    IN  IF n1.ok THEN printer_append(n1, T("\n")) ELSE n1

\* `<vn> = <vn><args>`; arguments that are no tuple print nothing
dump_oper_reduce(nfo, pop, vn, path) ==
    LET args == Last(nfo.opers[pop].stack)
    IN  IF args # NULL /\ nfo.heap[args].type # "PY_TUPLE" THEN [nfo EXCEPT !.ok = TRUE]
        ELSE LET n1 == dump_obj(printer_append(printer_append(nfo, Assign(vn)), Name(vn)),
                                args, path)
             IN  IF n1.ok THEN printer_append(n1, T("\n")) ELSE n1

\* `<vn> = <vn>.__new__(<vn>, *<args>)`
dump_oper_newobj(nfo, pop, vn, path) ==
    LET args == Last(nfo.opers[pop].stack)
    IN  IF nfo.heap[args].type # "PY_TUPLE" THEN [nfo EXCEPT !.ok = TRUE]
        ELSE LET n0 == printer_append(printer_append(printer_append(printer_append(
                           printer_append(nfo, Assign(vn)), Name(vn)),
                           T(".__new__(")), Name(vn)), T(", *"))
                 n1 == dump_obj(n0, args, path)
             IN  IF n1.ok THEN printer_append(printer_append(n1, T(")")), T("\n"))
                 ELSE n1

dump_oper(nfo, pop, vn, path) ==
    CASE nfo.opers[pop].op = "OP_FAKE_INIT" -> dump_oper_init(nfo, pop, vn, path)
      [] nfo.opers[pop].op = "OP_REDUCE" -> dump_oper_reduce(nfo, pop, vn, path)
      [] nfo.opers[pop].op = "OP_NEWOBJ" -> dump_oper_newobj(nfo, pop, vn, path)
      [] OTHER -> [nfo EXCEPT !.ok = FALSE]

\* the loop of dump_what over the history
dump_what_loop(nfo, list, i, vn, path) ==
    IF i > Len(list) THEN nfo
    ELSE LET n1 == dump_oper(nfo, list[i], vn, path)
         IN  IF ~n1.ok THEN n1 ELSE dump_what_loop(n1, list, i + 1, vn, path)

\* the declaration of obj goes to r_cons ahead of the suspended buffer, which
\* then receives the name
prepend_obj(nfo, obj, path) ==
    LET n0 == [nfo EXCEPT !.outstack = Append(@, nfo.out),
                          !.first = TRUE, !.ret = FALSE, !.out = <<>>]
        n1 == dump_obj(n0, obj, path)
        n2 == printer_drain_free(n1)
        n3 == [n2 EXCEPT !.out = Last(n2.outstack), !.outstack = Front(@),
                         !.first = FALSE, !.ret = nfo.ret]
    IN  IF n1.ok THEN printer_append(n3, Name(n3.heap[obj].varname)) ELSE n3

dump_what(nfo, obj, path) ==
    LET var == nfo.heap[obj].varname
    IN  IF ~nfo.first
        THEN IF var # <<>> THEN [printer_append(nfo, Name(var)) EXCEPT !.ok = TRUE]
             ELSE prepend_obj(nfo, obj, path)
        ELSE IF var # <<>> /\ nfo.ret
        THEN \* "return " and then "return <name>\n"
             [printer_append(printer_append(printer_append(printer_append(nfo,
                  T("return ")), T("return ")), Name(var)), T("\n")) EXCEPT !.ok = TRUE]
        ELSE LET n0 == obj_varname(nfo, obj)
                 vn == n0.heap[obj].varname
                 pre == n0.out
                 n1 == dump_what_loop([n0 EXCEPT !.out = <<>>, !.ret = FALSE,
                                                 !.first = FALSE, !.ok = TRUE],
                                      n0.heap[obj].what, 1, vn, path)
                 n2 == [n1 EXCEPT !.first = TRUE, !.ret = nfo.ret]
             IN  IF n1.ok
                 THEN LET n3 == IF n2.ret
                                THEN printer_append(printer_append(printer_append(n2,
                                         T("return ")), Name(vn)), T("\n"))
                                ELSE n2
                      IN  IF Len(n3.out) > 0 THEN [n3 EXCEPT !.out = pre \o n3.out]
                          ELSE n3
                 ELSE n2

\* A call of dump_obj that repeats a call still active, for the same object,
\* in the same mode and with the same objects named, makes the same calls
\* again: the recursion never returns and the C stack overflows (over).
dump_obj(nfo, obj, path) ==
    LET key == <<obj, nfo.first, nfo.ret, NamedCount(nfo)>>
        p == path \cup {key}
        type == nfo.heap[obj].type
    IN  IF nfo.over THEN [nfo EXCEPT !.ok = FALSE]
        ELSE IF key \in path THEN [nfo EXCEPT !.ok = FALSE, !.over = TRUE]
        ELSE CASE type = "PY_BOOL" -> dump_bool(nfo, obj)
               [] type = "PY_INT" -> dump_int(nfo, obj)
               [] type = "PY_STR" -> dump_str(nfo, obj)
               [] type = "PY_FLOAT" -> dump_float(nfo, obj)
               [] type = "PY_NONE" -> dump_none(nfo, obj)
               [] type = "PY_TUPLE" -> dump_tuple(nfo, obj, p)
               [] type = "PY_LIST" -> dump_list(nfo, obj, p)
               [] type = "PY_DICT" -> dump_dict(nfo, obj, p)
               [] type = "PY_FUNC" -> dump_func(nfo, obj)
               [] type = "PY_WHAT" -> dump_what(nfo, obj, p)
               [] OTHER -> [nfo EXCEPT !.ok = FALSE]  \* PY_SET, PY_FROZEN_SET, PY_SPLIT

RECURSIVE dump_stack_loop(_, _, _)
dump_stack_loop(nfo, list, i) ==
    IF i > Len(list) THEN nfo
    ELSE LET len == Len(list) - i
             n0 == printer_drain(printer_append(nfo, <<"## VM[]", len>>))
             n1 == [n0 EXCEPT !.first = TRUE, !.ret = IF len = 0 THEN TRUE ELSE @]
             n2 == dump_obj(n1, list[i], {})
         IN  IF ~n2.ok THEN n2 ELSE dump_stack_loop(printer_drain(n2), list, i + 1)

dump_stack(nfo, list) ==
    LET n0 == IF Len(list) = 0 THEN printer_append(nfo, T("## stack empty")) ELSE nfo
        n1 == printer_append(n0, <<"## Stack start", Len(list)>>)
    IN  dump_stack_loop([n1 EXCEPT !.ok = TRUE], list, 1)

\* a PrintInfo as print_info_init leaves it
print_info_init(h, ops) ==
    [heap |-> h, opers |-> ops, out |-> <<>>, outstack |-> <<>>, first |-> FALSE,
     ret |-> FALSE, varid |-> 0, verbose |-> FALSE, stack |-> TRUE,
     cons |-> <<>>, ok |-> TRUE, rv |-> 0, over |-> FALSE]

dump_machine(s, nfo) ==
    LET n0 == [nfo EXCEPT !.verbose = TRUE, !.outstack = <<>>]
        n1 == IF n0.stack THEN dump_stack(n0, s.stack) ELSE n0
    IN  [printer_drain_free(n1) EXCEPT !.ok = n1.ok]

\* ------------------------------------------------------------ the input
\* an opcode of the input with its immediate
O(code) == [code |-> code, val |-> 0]
OV(code, val) == [code |-> code, val |-> val]

\* immediates the free part of the input draws from
Locs == 0 .. MaxLoc
IntVals == {1}

\* a list that holds itself, by DUP and through the memo
SelfRefDup == <<O("OP_EMPTY_LIST"), O("OP_DUP"), O("OP_APPEND")>>
SelfRefMemo == <<O("OP_EMPTY_LIST"), O("OP_MEMOIZE"), OV("OP_BINGET", 0), O("OP_APPEND")>>
\* a PY_WHAT on the stack twice
ReduceDup == <<O("OP_GLOBAL"), O("OP_EMPTY_TUPLE"), O("OP_REDUCE"), O("OP_DUP")>>
\* two PY_WHAT, each in the arguments of an operation of the other
MutualWhat == <<O("OP_NONE"), O("OP_NONE"), O("OP_NEWOBJ"), O("OP_MEMOIZE"),
                O("OP_NONE"), OV("OP_BINGET", 0), O("OP_TUPLE1"), O("OP_NEWOBJ"),
                O("OP_TUPLE1"), O("OP_NEWOBJ")>>
\* (1, 2, 3)
TupleOfInts == <<OV("OP_BININT", 1), OV("OP_BININT", 2), OV("OP_BININT", 3),
                 O("OP_TUPLE3")>>
\* __builtin__.eval ('1+1')
ReduceEval == <<O("OP_GLOBAL"), O("OP_MARK"), O("OP_BINUNICODE"), O("OP_TUPLE"),
                O("OP_REDUCE")>>
\* a list under a mark, with a list pushed after it
ListInList == <<O("OP_EMPTY_LIST"), O("OP_MARK"), O("OP_EMPTY_LIST"), O("OP_NEWTRUE"),
                O("OP_NEWFALSE"), O("OP_BINFLOAT")>>

\* __builtin__.eval ([]): REDUCE with a list in its arguments
ReduceList == <<O("OP_GLOBAL"), O("OP_MARK"), O("OP_EMPTY_LIST"), O("OP_TUPLE"),
                O("OP_REDUCE")>>
\* an object under BUILD, below another stack element
BuildBelow == <<O("OP_NONE"), O("OP_NONE"), O("OP_BUILD"), O("OP_NEWTRUE")>>
\* an object below a mark is fetched from the memo above it
SharedUnderMark == <<O("OP_NONE"), O("OP_MEMOIZE"), O("OP_MARK"), OV("OP_BINGET", 0),
                     O("OP_TUPLE")>>
\* [True, False], element by element
TwoAppends == <<O("OP_EMPTY_LIST"), O("OP_NEWTRUE"), O("OP_APPEND"), O("OP_NEWFALSE"),
                O("OP_APPEND")>>
\* two REDUCE whose arguments are the same list, which holds itself
DoubleReduce == <<O("OP_GLOBAL"), O("OP_EMPTY_LIST"), O("OP_DUP"), O("OP_APPEND"),
                  O("OP_MEMOIZE"), O("OP_REDUCE"), OV("OP_BINGET", 0), O("OP_REDUCE")>>
\* BUILD on an object that the memo holds too, fetched again afterwards
UpgradeShared == <<O("OP_NONE"), O("OP_MEMOIZE"), O("OP_NONE"), O("OP_BUILD"),
                   OV("OP_BINGET", 0)>>
\* opcodes after a STOP, and after a byte the disassembler rejects
StopEarly == <<O("OP_NONE"), O("OP_MEMOIZE"), O("OP_STOP"), O("OP_NONE")>>
BadByte == <<O("OP_NONE"), O("OP_MEMOIZE"), O("ILLEGAL"), O("OP_NONE")>>

\* scripted inputs: the empty one, whose opcodes are all free, and the byte
\* sequences of the scenarios
Scripts == { <<>>, SelfRefDup, SelfRefMemo, ReduceDup, MutualWhat, TupleOfInts,
             ReduceEval, ListInList, StopEarly, BadByte, ReduceList,
             BuildBelow, SharedUnderMark, TwoAppends, DoubleReduce,
             UpgradeShared }

Init ==
    /\ stack = <<>>
    /\ metastack = <<>>
    /\ popstack = <<>>
    /\ memo = <<>>
    /\ heap = <<>>
    /\ opers = <<>>
    /\ recurse = 0
    /\ phase = "run"
    /\ prog \in Scripts
    /\ budget = IF prog = <<>> THEN MaxOps ELSE MaxTail
    /\ lastop = [code |-> "none", val |-> 0, ok |-> TRUE]
    /\ cons = <<>>
    /\ cons2 = <<>>
    /\ dumpret = "none"

\* no opcode was consumed yet: pvm->offset is still pvm->start
AtStart == lastop.code = "none"

\* run_pvm is at an opcode code with immediate val
Fetch(code, val) ==
    /\ phase = "run"
    /\ IF prog # <<>> THEN Head(prog) = OV(code, val) ELSE budget > 0

\* one turn of run_pvm's loop: exec_op ran the handler of the opcode's case
\* label and r is what it left; a failed handler ends the run
Do(code, val, r) ==
    /\ Fetch(code, val)
    /\ stack' = r.stack
    /\ metastack' = r.metastack
    /\ popstack' = r.popstack
    /\ memo' = r.memo
    /\ heap' = r.heap
    /\ opers' = r.opers
    /\ recurse' = r.recurse
    /\ phase' = IF r.ok THEN "run" ELSE "failed"
    /\ lastop' = [code |-> code, val |-> val, ok |-> r.ok]
    /\ prog' = IF prog # <<>> THEN Tail(prog) ELSE prog
    /\ budget' = IF prog # <<>> THEN budget ELSE budget - 1
    /\ UNCHANGED <<cons, cons2, dumpret>>

\* the case labels of exec_op; opcodes that share a label share an action
OpMark == Do("OP_MARK", 0, op_mark(S))
OpPop == Do("OP_POP", 0, op_pop(S))
OpPopMark == Do("OP_POP_MARK", 0, op_pop_mark(S))
OpNone == Do("OP_NONE", 0, op_none(S))
OpBinint == \E v \in IntVals : Do("OP_BININT", v, push_int_type(S, v))
OpBinfloat == Do("OP_BINFLOAT", 0, op_float(S, 0))
OpBinunicode == Do("OP_BINUNICODE", 0, push_str(S, 0))
OpObj == Do("OP_OBJ", 0, op_obj(S))
OpInst == Do("OP_INST", 0, op_inst(S, 0))
OpGlobal == Do("OP_GLOBAL", 0, op_global(S, 0))
OpStackGlobal == Do("OP_STACK_GLOBAL", 0, op_stack_global(S))
OpNewobj == Do("OP_NEWOBJ", 0, py_what_addop(S, 1, "OP_NEWOBJ"))
OpBuild == Do("OP_BUILD", 0, py_what_addop(S, 1, "OP_BUILD"))
OpReduce == Do("OP_REDUCE", 0, py_what_addop(S, 1, "OP_REDUCE"))
OpTuple == Do("OP_TUPLE", 0, op_type_create_append(S, "PY_TUPLE"))
OpEmptyTuple == Do("OP_EMPTY_TUPLE", 0, op_iter_n(S, 0, "PY_TUPLE"))
OpTuple1 == Do("OP_TUPLE1", 0, op_iter_n(S, 1, "PY_TUPLE"))
OpTuple2 == Do("OP_TUPLE2", 0, op_iter_n(S, 2, "PY_TUPLE"))
OpTuple3 == Do("OP_TUPLE3", 0, op_iter_n(S, 3, "PY_TUPLE"))
OpEmptyList == Do("OP_EMPTY_LIST", 0, op_iter_n(S, 0, "PY_LIST"))
OpAppend == Do("OP_APPEND", 0, op_append(S))
OpAppends == Do("OP_APPENDS", 0, op_appends(S, "OP_APPEND", "PY_LIST"))
OpList == Do("OP_LIST", 0, op_type_create_append(S, "PY_LIST"))
OpEmptyDict == Do("OP_EMPTY_DICT", 0, op_iter_n(S, 0, "PY_DICT"))
OpSetitem == Do("OP_SETITEM", 0, op_setitem(S))
OpSetitems == Do("OP_SETITEMS", 0, op_setitems(S))
OpDict == Do("OP_DICT", 0, op_type_create_append(S, "PY_DICT"))
OpNewtrue == Do("OP_NEWTRUE", 0, op_newbool(S, TRUE))
OpNewfalse == Do("OP_NEWFALSE", 0, op_newbool(S, FALSE))
OpFrozenset == Do("OP_FROZENSET", 0, op_type_create_append(S, "PY_FROZEN_SET"))
OpEmptySet == Do("OP_EMPTY_SET", 0, op_iter_n(S, 0, "PY_SET"))
OpAdditems == Do("OP_ADDITEMS", 0, op_appends(S, "OP_ADDITEMS", "PY_SET"))
OpMemoize == Do("OP_MEMOIZE", 0, op_memorize(S))
OpBinput == \E v \in Locs : Do("OP_BINPUT", v, memo_put(S, v))
OpBinget == \E v \in Locs : Do("OP_BINGET", v, memo_get(S, v))
OpDup == Do("OP_DUP", 0, op_dup(S))
OpUnhandled == Do("OP_NEWOBJ_EX", 0, Fail(S))

\* a loop exit that keeps the memo
Stopped_nodrop(r) ==
    /\ phase' = "stopped"
    /\ UNCHANGED <<stack, metastack, popstack, memo, heap, opers, recurse, prog,
                   budget, lastop, cons, cons2, dumpret>>

\* run_pvm leaves its loop at STOP or at the end of the buffer: the memo is
\* dropped and the run succeeded; r is the machine empty_memo left
Stopped(r) ==
    /\ memo' = r.memo
    /\ heap' = r.heap
    /\ opers' = r.opers
    /\ phase' = "stopped"
    /\ UNCHANGED <<stack, metastack, popstack, recurse, prog, budget, lastop,
                   cons, cons2, dumpret>>

\* the end of the buffer, bsize reached 0 in the loop
StopRun == phase = "run" /\ prog = <<>> /\ ~AtStart /\ Stopped(empty_memo(S))

\* the byte at rbuf[0] is OP_STOP and break_on_stop is set: the loop is left
\* before the opcode is decoded or handed to exec_op
OpStop == Fetch("OP_STOP", 0) /\ Stopped(empty_memo(S))

\* run_pvm returns false without a turn of exec_op and without empty_memo;
\* op is what the loop was at
Aborted(op) ==
    /\ phase' = "failed"
    /\ lastop' = op
    /\ UNCHANGED <<stack, metastack, popstack, memo, heap, opers, recurse, prog,
                   budget, cons, cons2, dumpret>>

\* r_anal_op returned a length <= 0 for the bytes at the offset
DecodeFail ==
    Fetch("ILLEGAL", 0) /\ Aborted([code |-> "ILLEGAL", val |-> 0, ok |-> FALSE])

\* get_buff returned 0: there is no byte at the offset, the file is empty
NoBuffer == phase = "run" /\ prog = <<>> /\ AtStart /\ Aborted(lastop)

\* what dump_machine returned: it did not return when the recursion of dump_obj
\* has no end
DumpRet(n) == IF n.over THEN "overflow" ELSE IF n.ok THEN "true" ELSE "false"

\* pickle_dec renders the state run_pvm left, whether it succeeded or not; n
\* is the PrintInfo dump_machine left
Dumped(n) ==
    /\ heap' = n.heap
    /\ cons' = n.cons
    /\ dumpret' = DumpRet(n)
    /\ recurse' = recurse + 1
    /\ phase' = "dumped"
    /\ UNCHANGED <<stack, metastack, popstack, memo, opers, prog, budget, lastop, cons2>>

DumpMachine ==
    /\ phase \in {"stopped", "failed"}
    /\ Dumped(dump_machine(S, print_info_init(heap, opers)))

\* the renderer run a second time, with a new PrintInfo, on the same state
DumpedAgain(n) ==
    /\ heap' = n.heap
    /\ cons2' = n.cons
    /\ phase' = "dumped2"
    /\ UNCHANGED <<stack, metastack, popstack, memo, opers, recurse, prog, budget,
                   lastop, cons, dumpret>>

DumpAgain ==
    /\ phase = "dumped"
    /\ dumpret # "overflow"
    /\ DumpedAgain(dump_machine(S, print_info_init(heap, opers)))

\* pickle_dec's last step: the machine state is torn down; r is what
\* empty_state left. A free function that was handed released memory may have
\* ended the process instead
TornDown(r) ==
    /\ stack' = r.stack
    /\ metastack' = r.metastack
    /\ popstack' = r.popstack
    /\ memo' = r.memo
    /\ heap' = r.heap
    /\ opers' = r.opers
    /\ phase' \in (IF r.bad THEN {"freed", "crashed"} ELSE {"freed"})
    /\ UNCHANGED <<recurse, prog, budget, lastop, cons, cons2, dumpret>>

\* pickle_dec with the j flag: json_dump_state walks the graph the run left
\* and leaves its references and reference counts as they are
DumpJson ==
    /\ phase \in {"stopped", "failed"}
    /\ phase' = "dumped_json"
    /\ UNCHANGED <<stack, metastack, popstack, memo, heap, opers, recurse, prog,
                   budget, lastop, cons, cons2, dumpret>>

EmptyState ==
    /\ \/ phase = "dumped" /\ dumpret # "overflow"
       \/ phase = "dumped_json"
    /\ TornDown(empty_state(S))

Next ==
    \/ OpMark \/ OpPop \/ OpPopMark \/ OpNone \/ OpBinint \/ OpBinfloat
    \/ OpBinunicode \/ OpObj \/ OpInst \/ OpGlobal \/ OpStackGlobal
    \/ OpNewobj \/ OpBuild \/ OpReduce \/ OpTuple \/ OpEmptyTuple
    \/ OpTuple1 \/ OpTuple2 \/ OpTuple3 \/ OpEmptyList \/ OpAppend
    \/ OpAppends \/ OpList \/ OpEmptyDict \/ OpSetitem \/ OpSetitems
    \/ OpDict \/ OpNewtrue \/ OpNewfalse \/ OpFrozenset \/ OpEmptySet
    \/ OpAdditems \/ OpMemoize \/ OpBinput \/ OpBinget \/ OpDup
    \/ OpUnhandled
    \/ StopRun \/ OpStop \/ DecodeFail \/ NoBuffer
    \/ DumpMachine
    \/ DumpAgain
    \/ DumpJson
    \/ EmptyState

Spec == Init /\ [][Next]_vars

\* ============================================================ properties
Live(o) == heap[o].live
Whats == {o \in DOMAIN heap : heap[o].type = "PY_WHAT" /\ Live(o)}
Count(seq, P(_)) == Cardinality({i \in DOMAIN seq : P(seq[i])})
\* the tokens that start the value of an object
ValueTexts == {"(", "[", "{", "None", "True", "False", "%d", "%s", "%lf", "__import__"}
\* places of the graph that hold o: stack places, container elements,
\* argument places of operation records
Occurrences(o) ==
    Count(stack, LAMBDA x : x = o)
    + Cardinality({<<c, i>> \in (DOMAIN heap) \X (1 .. Len(heap)) :
                      i \in DOMAIN heap[c].iter /\ heap[c].iter[i] = o})
    + Cardinality({<<p, i>> \in (DOMAIN opers) \X (1 .. Len(heap)) :
                      i \in DOMAIN opers[p].stack /\ opers[p].stack[i] = o})

\* C1: pseudocode rendering terminates for every final state, also for a
\* list that contains itself.
C1_RenderingTerminates == phase = "dumped" => dumpret # "overflow"

ArgsOf(w) ==
    UNION {Range(heap[a].iter) :
             a \in UNION {Range(opers[p].stack) : p \in Range(heap[w].what)}}

C3_OneReturn ==
    (phase = "dumped" /\ dumpret = "true" /\ Len(stack) >= 1) =>
        /\ Count(cons, LAMBDA tok : tok[1] = "return ") = 1
        /\ \A i, j \in DOMAIN cons :
               (cons[i][1] = "return " /\ cons[j][1] = "## VM[]") => j < i

\* C4: a container that occurs at more than one place of the graph has its
\* value text emitted once.
C4_SharedEmittedOnce ==
    (phase = "dumped" /\ dumpret = "true") =>
        \A o \in DOMAIN heap :
            (heap[o].type \in IterTypes /\ Occurrences(o) > 1) =>
                Count(cons, LAMBDA tok : tok[1] \in ValueTexts /\ tok[2] = o) <= 1

\* C5: memoization records the memo slot on the object, and a name is
\* var_<slot> for a memoized object and var_<varid++> otherwise.
C5_NameFromMemoOrVarid ==
    /\ \A k \in DOMAIN memo :
           memo[k] # NULL => heap[memo[k]].memo_id \in DOMAIN memo
    /\ phase = "dumped" =>
           \A o \in DOMAIN heap :
               (heap[o].varname # <<>> /\ heap[o].memo_id = UT64_MAX) =>
                   heap[o].varname[1] \in 0 .. Len(heap)

\* C6: the renderer run twice on the same final state prints the same text.
C6_RenderTwiceSame == phase = "dumped2" => cons2 = cons

\* the first Oper of every What is FAKE_INIT with exactly one argument, in
\* every state of the run and of the finalised machine (before empty_state)
C7_FirstOperInv ==
    phase \notin {"freed", "crashed"} =>
        \A w \in Whats :
            /\ Len(heap[w].what) >= 1
            /\ opers[heap[w].what[1]].op = "OP_FAKE_INIT"
            /\ Len(opers[heap[w].what[1]].stack) = 1

\* a What that is not freed by the step keeps its first Oper (empty_state,
\* which takes the machine apart, is not a step of the claim)
C7_FirstOperKept ==
    \A w \in Whats :
        (phase' \notin {"freed", "crashed"} /\ w \in DOMAIN heap' /\ heap'[w].live) =>
            /\ heap'[w].type = "PY_WHAT"
            /\ heap'[w].what # <<>>
            /\ heap'[w].what[1] = heap[w].what[1]
            /\ opers'[heap[w].what[1]] = opers[heap[w].what[1]]

\* C7: in every reachable state the first Oper of every What is FAKE_INIT
\* with exactly one argument, and no step changes the first Oper of a What.
C7_FirstOperFakeInit == []C7_FirstOperInv /\ [][C7_FirstOperKept]_vars

\* a REDUCE ran its split pass over a What that already had a history
C7_Witness ==
    /\ lastop = [code |-> "OP_REDUCE", val |-> 0, ok |-> TRUE]
    /\ \E w \in Whats : Len(heap[w].what) >= 3

\* C8: every Oper of a What other than the first has a non-empty argument
\* stack.
C8_OperStackNonEmpty ==
    \A w \in Whats :
        \A i \in 2 .. Len(heap[w].what) : opers[heap[w].what[i]].stack # <<>>

\* C9: after successful opcodes every Dict holds an even number of elements.
C9_DictEven ==
    phase = "run" =>
        \A o \in DOMAIN heap :
            (heap[o].type = "PY_DICT" /\ Live(o)) => Len(heap[o].iter) % 2 = 0

\* the opcodes that close a MARK
Closers == {"OP_TUPLE", "OP_LIST", "OP_DICT", "OP_FROZENSET", "OP_APPENDS",
            "OP_SETITEMS", "OP_ADDITEMS", "OP_INST", "OP_OBJ", "OP_POP_MARK"}

\* this step executed opcode code
Ran(code) == phase = "run" /\ <<prog', budget'>> # <<prog, budget>> /\ lastop'.code = code

\* l is what the saved stack prev became: its top may have been upgraded
SameStack(l, prev, h, ops) ==
    /\ Len(l) >= Len(prev)
    /\ \A i \in 1 .. Len(prev) :
           \/ l[i] = prev[i]
           \/ /\ i = Len(prev)
              /\ h[l[i]].type = "PY_WHAT"
              /\ ops[h[l[i]].what[1]].stack = <<prev[i]>>

C10_MarkClose ==
    /\ Ran("OP_MARK") => metastack' = Append(metastack, stack) /\ stack' = <<>>
    /\ \A c \in Closers :
           (Ran(c) /\ lastop'.ok) =>
               /\ metastack # <<>>
               /\ metastack' = Front(metastack)
               /\ SameStack(stack', Last(metastack), heap', opers')

\* C10: MARK raises the depth of metastack by one; a successful mark-bounded
\* close lowers it by one and makes the stack saved by the MARK current again.
C10_MarkCloseBalanced == [][C10_MarkClose]_vars

\* a mark-bounded close has just succeeded inside an outer MARK that is
\* still open
C10_Witness ==
    /\ phase = "run"
    /\ lastop.code \in Closers
    /\ lastop.ok
    /\ Len(metastack) >= 1

\* C11: a mark-bounded closing opcode executed while metastack is empty
\* fails.
C11_CloseNeedsMark ==
    [][\A c \in Closers : (Ran(c) /\ metastack = <<>>) => ~lastop'.ok]_vars

\* POP_MARK or TUPLE, which fail for no other reason, failed with no MARK open
C11_Witness ==
    /\ phase = "failed"
    /\ lastop.code \in {"OP_POP_MARK", "OP_TUPLE"}
    /\ ~lastop.ok
    /\ metastack = <<>>

\* DICT over an odd number of objects since the last MARK
OddDict == Ran("OP_DICT") /\ metastack # <<>> /\ Len(stack) % 2 = 1

\* C12: DICT over an odd number of objects pushed since the last MARK fails;
\* no Dict is pushed, and stack and metastack are as before the opcode.
C12_OddDictFails ==
    [][OddDict =>
          /\ ~lastop'.ok
          /\ phase' = "failed"
          /\ stack' = stack
          /\ metastack' = metastack
          /\ \A o \in (DOMAIN heap') \ (DOMAIN heap) : ~heap'[o].live]_vars

\* DICT failed under an open MARK with an odd number of objects above it
C12_Witness ==
    /\ phase = "failed"
    /\ lastop.code = "OP_DICT"
    /\ metastack # <<>>
    /\ Len(stack) % 2 = 1

\* the memo entries and the places of the current stack that hold o
MemoRefs(o) == Cardinality({k \in DOMAIN memo : memo[k] = o})
StackRefs(o) == Count(stack, LAMBDA x : x = o)
Memoized == {memo[k] : k \in DOMAIN memo} \ {NULL}

\* C13: after successful opcodes the refcnt of every object held in the memo
\* is at least its memo entries plus its stack places.
C13_RefcntCoversRefs ==
    phase = "run" => \A o \in Memoized : heap[o].refcnt >= MemoRefs(o) + StackRefs(o)

\* C13 as amended: refcnt counts the references beyond the first, so
\* refcnt + 1 is at least the memo entries plus the stack places.
C13_RefcntPlusOneCoversRefs ==
    phase = "run" => \A o \in Memoized : heap[o].refcnt + 1 >= MemoRefs(o) + StackRefs(o)

\* a memoized object is on the stack twice and every reference is counted
C13_Witness ==
    /\ phase = "run"
    /\ \E o \in Memoized :
           /\ StackRefs(o) >= 2
           /\ heap[o].refcnt + 1 = MemoRefs(o) + StackRefs(o)

\* the objects o points to: container elements, the fields of a Func and the
\* argument stacks of a What's operation records
Children(o) ==
    (Range(heap[o].iter) \cup {heap[o].module, heap[o].name}
        \cup UNION {Range(opers[p].stack) : p \in Range(heap[o].what)}) \ {NULL}

RECURSIVE ReachFrom(_)
ReachFrom(set) ==
    LET more == UNION {Children(o) : o \in set}
    IN  IF more \subseteq set THEN set ELSE ReachFrom(set \cup more)

\* what the main stack, the stacks saved in metastack and popstack hold
Roots ==
    (Range(stack) \cup Range(popstack)
        \cup UNION {Range(metastack[i]) : i \in DOMAIN metastack}) \ {NULL}

\* C14: after successful opcodes every object of the memo is reachable from
\* the main stack, a saved stack or popstack, so the shallow free of the memo
\* at the end of the run frees no object that is still reachable.
C14_MemoReachable ==
    /\ phase = "run" => Memoized \subseteq ReachFrom(Roots)
    /\ phase = "stopped" => \A o \in ReachFrom(Roots) : heap[o].live

\* the memo holds an object that no stack holds directly
C14_Witness ==
    /\ phase = "run"
    /\ \E o \in Memoized : o \notin Roots /\ o \in ReachFrom(Roots)

\* C15: a successful MEMOIZE stores the top of the stack into slot
\* memo.count, that slot is free before the store, and no existing entry is
\* replaced.
C15_MemoizeFreshSlot ==
    [][(Ran("OP_MEMOIZE") /\ stack # <<>> /\ lastop'.ok) =>
          /\ Cardinality(DOMAIN memo) \notin DOMAIN memo
          /\ DOMAIN memo' = DOMAIN memo \cup {Cardinality(DOMAIN memo)}
          /\ memo'[Cardinality(DOMAIN memo)] = Last(stack)
          /\ \A k \in DOMAIN memo : memo'[k] = memo[k]]_vars

\* the opcode the run is at, "end" at the end of the buffer
AtCode == IF prog # <<>> THEN Head(prog).code ELSE "end"
\* a turn of the loop consumed an opcode and ran its handler
RanHandler == phase = "run" /\ <<prog', budget'>> # <<prog, budget>>
\* handlers run in input order, and none runs once the run has ended
InOrder ==
    /\ (RanHandler /\ prog # <<>>) =>
          /\ lastop'.code = Head(prog).code /\ lastop'.val = Head(prog).val
          /\ prog' = Tail(prog)
    /\ RanHandler => AtCode \notin {"OP_STOP", "ILLEGAL"}
    /\ phase # "run" => UNCHANGED <<lastop, prog, budget>>
    /\ (phase # "run" /\ phase' \notin {"freed", "crashed"}) =>
          UNCHANGED <<stack, metastack, popstack, memo, opers>>
\* the loop is at a byte the disassembler rejects
BadOpcode == lastop'.code = "ILLEGAL" /\ AtCode \in {"ILLEGAL", "end"}
\* the run ends in success at STOP or at the end of the buffer, with the memo
\* dropped and without a handler
EndsInSuccess ==
    /\ phase' = "stopped"
    /\ ~RanHandler
    /\ AtCode \in {"OP_STOP", "end"}
    /\ memo' = <<>>
    /\ UNCHANGED <<stack, metastack, popstack, prog, budget, lastop>>
\* the run ends in failure at a failed handler or at a byte that is no opcode
EndsInFailure ==
    /\ phase' = "failed"
    /\ \/ RanHandler /\ ~lastop'.ok
       \/ /\ ~RanHandler /\ BadOpcode
          /\ UNCHANGED <<stack, metastack, popstack, memo, prog, budget>>
\* a buffer without a byte is refused before the loop
EndsNoBuffer ==
    /\ phase' = "failed"
    /\ AtStart /\ prog = <<>> /\ ~RanHandler
    /\ UNCHANGED <<stack, metastack, popstack, memo, prog, budget, lastop>>
RunGoesOn == phase' = "run" /\ RanHandler /\ lastop'.ok

\* C16 as stated: handlers run in input order; the run stops at STOP (not
\* executed), at a handler failure, at a decode failure or at the end of the
\* buffer, and no handler runs afterwards; STOP and the end of the buffer are
\* a success with the memo dropped, a handler or decode failure is a failure.
C16_RunStops ==
    [][/\ InOrder
       /\ phase = "run" => (RunGoesOn \/ EndsInSuccess \/ EndsInFailure)]_vars

\* C16, amended: as above, and a buffer that holds no byte at all is a failure
\* in which no handler ran and the memo, empty, was not dropped.
C16_RunStopsOrNoBuffer ==
    [][/\ InOrder
       /\ phase = "run" =>
             (RunGoesOn \/ EndsInSuccess \/ EndsInFailure \/ EndsNoBuffer)]_vars

\* a run stopped at a STOP with opcodes behind it, the memo it had filled is
\* dropped and the object is still on the stack
C16_Witness ==
    /\ phase = "stopped" /\ AtCode = "OP_STOP" /\ Len(prog) > 1
    /\ lastop.code = "OP_MEMOIZE" /\ memo = <<>> /\ stack # <<>>

\* the run ended in success: at a STOP or at the end of the buffer
RunSucceeded == lastop.ok /\ (AtStart => AtCode = "OP_STOP")
\* lists and dicts the renderer comes to that hold a PY_SPLIT
SplitHolders ==
    {o \in ReachFrom(Range(stack) \ {NULL}) :
        /\ heap[o].type \in {"PY_LIST", "PY_DICT"}
        /\ \E i \in DOMAIN heap[o].iter : heap[heap[o].iter[i]].type = "PY_SPLIT"}

\* C17: rendering the final state of a successful run succeeds when a list or
\* dict of the graph holds a split marker left by the split pass of REDUCE.
C17_SplitRenders ==
    (phase = "dumped" /\ RunSucceeded /\ SplitHolders # {}) => dumpret = "true"

\* opcodes dump_oper has a form for
FormedOps == {"OP_FAKE_INIT", "OP_REDUCE", "OP_NEWOBJ"}
\* PY_WHAT directly on the stack with an operation that has no form
UnformedWhats ==
    {o \in Range(stack) \ {NULL} :
        /\ heap[o].type = "PY_WHAT"
        /\ \E i \in DOMAIN heap[o].what : opers[heap[o].what[i]].op \notin FormedOps}
\* stack elements the renderer came to
Rendered == Count(cons, LAMBDA tok : tok[1] = "## VM[]")

\* C18: an operation record whose opcode has no dedicated form (BUILD, APPEND,
\* SETITEM, ...) stops neither the rendering of the PY_WHAT it belongs to nor
\* the rendering of the stack elements after it.
C18_UnformedOperGoesOn ==
    (phase = "dumped" /\ RunSucceeded /\ dumpret # "overflow" /\ UnformedWhats # {}) =>
        /\ Rendered = Len(stack)
        /\ dumpret = "true"

\* the container an opcode closes a mark with
MarkCloserType ==
    [c \in {"OP_TUPLE", "OP_LIST", "OP_DICT", "OP_FROZENSET"} |->
        CASE c = "OP_TUPLE" -> "PY_TUPLE" [] c = "OP_LIST" -> "PY_LIST"
          [] c = "OP_DICT" -> "PY_DICT" [] OTHER -> "PY_FROZEN_SET"]
\* objects directly on the stack or on a saved stack, after the step
OnStacksAfter ==
    Range(stack') \cup UNION {Range(metastack'[i]) : i \in DOMAIN metastack'}
\* the step closed the last mark with a new container of type t that holds
\* what the current stack held, in its order
ClosedInto(t) ==
    /\ metastack # <<>>
    /\ metastack' = Front(metastack)
    /\ stack' = Append(Last(metastack), Last(stack'))
    /\ Last(stack') \notin DOMAIN heap
    /\ heap'[Last(stack')].type = t
    /\ heap'[Last(stack')].iter = stack
    /\ \A o \in DOMAIN heap : heap'[o] = heap[o]

TupleN == [n \in 1 .. 3 |-> CASE n = 1 -> "OP_TUPLE1" [] n = 2 -> "OP_TUPLE2"
                                [] OTHER -> "OP_TUPLE3"]
\* the step replaced the top n objects by a new tuple that holds them
TopIntoTuple(n) ==
    /\ lastop'.ok
    /\ Len(stack') = Len(stack) - n + 1
    /\ SubSeq(stack', 1, Len(stack) - n) = SubSeq(stack, 1, Len(stack) - n)
    /\ Last(stack') \notin DOMAIN heap
    /\ heap'[Last(stack')].type = "PY_TUPLE"
    /\ heap'[Last(stack')].iter = SubSeq(stack, Len(stack) - n + 1, Len(stack))
    /\ \A o \in DOMAIN heap : heap'[o] = heap[o]
    /\ metastack' = metastack

\* C20: TUPLE1, TUPLE2, TUPLE3 on a current stack of at least N = 1, 2, 3
\* objects replace the top N objects by one tuple that holds them in their
\* bottom-to-top order and leave the objects below alone; with fewer than N
\* objects the opcode fails.
C20_TupleN ==
    [][\A n \in DOMAIN TupleN :
          Ran(TupleN[n]) =>
              IF Len(stack) >= n THEN TopIntoTuple(n)
              ELSE ~lastop'.ok /\ phase' = "failed"]_vars

\* TUPLE3 made a tuple of three different objects, with an object below
C20_Witness ==
    /\ phase = "run" /\ lastop.code \in {"OP_TUPLE2", "OP_TUPLE3"} /\ lastop.ok
    /\ Len(stack) >= 2
    /\ Cardinality(Range(heap[Last(stack)].iter)) >= 2

\* the object below the top of the current stack
Below == stack[Len(stack) - 1]
\* after the step w is a PY_WHAT that stands for obj: obj itself when it was
\* one, a new one whose FAKE_INIT holds obj otherwise, and ops are the
\* operations the step added to its history
UpgradedWith(w, obj, ops) ==
    /\ heap'[w].type = "PY_WHAT"
    /\ IF heap[obj].type = "PY_WHAT"
       THEN w = obj /\ Len(heap'[w].what) = Len(heap[obj].what) + 1
                    /\ Front(heap'[w].what) = heap[obj].what
       ELSE /\ w \notin DOMAIN heap
            /\ Len(heap'[w].what) = 2
            /\ opers'[heap'[w].what[1]].op = "OP_FAKE_INIT"
            /\ opers'[heap'[w].what[1]].stack = <<obj>>
    /\ Last(heap'[w].what) \notin DOMAIN opers
    /\ opers'[Last(heap'[w].what)].op = ops.op
    /\ opers'[Last(heap'[w].what)].stack = ops.stack
AppendedToList ==
    /\ stack' = Front(stack)
    /\ heap'[Below].type = "PY_LIST"
    /\ heap'[Below].iter = Append(heap[Below].iter, Last(stack))
    /\ DOMAIN heap' = DOMAIN heap /\ DOMAIN opers' = DOMAIN opers
AppendRecorded ==
    /\ Len(stack') = Len(stack) - 1
    /\ Front(stack') = Front(Front(stack))
    /\ UpgradedWith(Last(stack'), Below, [op |-> "OP_APPEND", stack |-> <<Last(stack)>>])

\* C21: APPEND on a current stack of at least two objects moves the top into
\* the list below it, as its last element and without a PY_WHAT; below any
\* other object it replaces that object in place by a PY_WHAT that wraps it
\* (or keeps the PY_WHAT) and ends its history with an APPEND record that
\* holds the removed top. The stack is one object shorter in both cases.
C21_Append ==
    [][(Ran("OP_APPEND") /\ Len(stack) >= 2) =>
          /\ lastop'.ok
          /\ IF heap[Below].type = "PY_LIST" THEN AppendedToList ELSE AppendRecorded]_vars

\* APPEND put an object into a list that held another one already
C21_Witness ==
    /\ phase = "run" /\ lastop.code = "OP_APPEND" /\ lastop.ok /\ stack # <<>>
    /\ heap[Last(stack)].type = "PY_LIST"
    /\ Cardinality(Range(heap[Last(stack)].iter)) >= 2

\* the object below the last mark: the top of the stack the mark saved
BelowMark == Last(Last(metastack))
MarkOverObject == metastack # <<>> /\ Last(metastack) # <<>>
\* the objects since the mark went into the container below the mark
DrainedInto ==
    /\ stack' = Last(metastack)
    /\ metastack' = Front(metastack)
    /\ heap'[BelowMark].type = heap[BelowMark].type
    /\ heap'[BelowMark].iter = heap[BelowMark].iter \o stack
    /\ DOMAIN heap' = DOMAIN heap /\ DOMAIN opers' = DOMAIN opers
\* the object below the mark became a PY_WHAT whose last record is op with
\* the objects since the mark
RangeRecorded(op) ==
    /\ Len(stack') = Len(Last(metastack))
    /\ Front(stack') = Front(Last(metastack))
    /\ metastack' = Front(metastack)
    /\ UpgradedWith(Last(stack'), BelowMark, [op |-> op, stack |-> stack])

\* C22: APPENDS drains the objects pushed since the MARK, in order, into the
\* object below the mark when that is a list or a set, without a PY_WHAT; any
\* other object is upgraded to a PY_WHAT with a record that carries the
\* APPENDS opcode and the objects pushed since the MARK.
C22_Appends ==
    [][(Ran("OP_APPENDS") /\ MarkOverObject) =>
          /\ lastop'.ok
          /\ IF heap[BelowMark].type \in {"PY_LIST", "PY_SET"} THEN DrainedInto
             ELSE RangeRecorded("OP_APPENDS")]_vars

\* the step pushed the object o itself and counted the new reference: no
\* object was made and nothing else of o or of another object changed
PushedSame(o) ==
    /\ lastop'.ok
    /\ stack' = Append(stack, o)
    /\ DOMAIN heap' = DOMAIN heap
    /\ heap' = [heap EXCEPT ![o].refcnt = @ + 1]
    /\ memo' = memo /\ metastack' = metastack
\* the slot the opcode of this step names holds an object
SlotHolds == lastop'.val \in DOMAIN memo /\ memo[lastop'.val] # NULL
\* an APPEND into the list below the top is seen through every memo slot and
\* every stack place that holds this list
AppendSeenByAll ==
    (Len(stack) >= 2 /\ heap[Below].type = "PY_LIST") =>
        /\ \A k \in DOMAIN memo :
              memo[k] = Below =>
                  /\ memo'[k] = Below
                  /\ heap'[memo'[k]].iter = Append(heap[Below].iter, Last(stack))
        /\ \A i \in 1 .. Len(stack) - 1 :
              stack[i] = Below =>
                  /\ stack'[i] = Below
                  /\ heap'[stack'[i]].iter = Append(heap[Below].iter, Last(stack))

\* C23: BINGET of a slot that holds an object, and DUP of the top object,
\* push this object itself and raise its refcnt by one, so an APPEND into a
\* list through one reference is seen through the others; BINGET of a slot
\* never stored fails and leaves the stack as it was.
C23_PushShares ==
    [][/\ (Ran("OP_BINGET") /\ SlotHolds) => PushedSame(memo[lastop'.val])
       /\ (Ran("OP_DUP") /\ stack # <<>>) => PushedSame(Last(stack))
       /\ (Ran("OP_BINGET") /\ lastop'.val \notin DOMAIN memo) =>
             ~lastop'.ok /\ stack' = stack /\ phase' = "failed"
       /\ Ran("OP_APPEND") => AppendSeenByAll]_vars

\* a list fetched from the memo was appended to, and the element is seen
\* through the memo slot
C23_Witness ==
    /\ phase = "run" /\ lastop.code = "OP_APPEND" /\ lastop.ok
    /\ 0 \in DOMAIN memo /\ memo[0] # NULL
    /\ heap[memo[0]].type = "PY_LIST" /\ heap[memo[0]].iter # <<>>
    /\ heap[memo[0]].refcnt >= 1

\* what the split pass goes to from o in the graph h, ops: the elements of a
\* container, the arguments of the records of a PY_WHAT
SplitChildren(h, ops, o) ==
    (Range(h[o].iter) \cup UNION {Range(ops[p].stack) : p \in Range(h[o].what)}) \ {NULL}
RECURSIVE SplitReach(_, _, _)
SplitReach(h, ops, set) ==
    LET more == UNION {SplitChildren(h, ops, o) : o \in set}
    IN  IF more \subseteq set THEN set ELSE SplitReach(h, ops, set \cup more)
\* containers the split pass marks
SplitTypes == {"PY_LIST", "PY_SET", "PY_FROZEN_SET", "PY_DICT"}
IsSplit(h, o) == o # NULL /\ h[o].type = "PY_SPLIT"
\* seq without a PY_SPLIT at its end
NoEndSplit(seq) == IF seq # <<>> /\ IsSplit(heap, Last(seq)) THEN Front(seq) ELSE seq
\* the record REDUCE added in this step, and its arguments
NewReduce == Last(heap'[Last(stack')].what)
ReduceArgs == Last(opers'[NewReduce].stack)
\* every container the arguments reach ends in the one new PY_SPLIT of this
\* REDUCE, which took the place of a PY_SPLIT at its end; all else is as it was
SplitsPlaced ==
    /\ NewReduce \notin DOMAIN opers /\ opers'[NewReduce].op = "OP_REDUCE"
    /\ \A o \in DOMAIN heap :
          IF o \in SplitReach(heap', opers', {ReduceArgs}) /\ heap[o].type \in SplitTypes
          THEN /\ Front(heap'[o].iter) = NoEndSplit(heap[o].iter)
               /\ Last(heap'[o].iter) \notin DOMAIN heap
               /\ IsSplit(heap', Last(heap'[o].iter))
               /\ heap'[Last(heap'[o].iter)].reduce = NewReduce
               /\ heap'[Last(heap'[o].iter)].live
          ELSE heap'[o].iter = heap[o].iter
    /\ \A o, q \in DOMAIN heap' :
          (IsSplit(heap', o) /\ IsSplit(heap', q) /\ o \notin DOMAIN heap
              /\ q \notin DOMAIN heap) => o = q
\* no container holds two PY_SPLIT next to each other
NoAdjacentSplits ==
    \A o \in DOMAIN heap : \A i \in 1 .. Len(heap[o].iter) - 1 :
        heap[o].live => ~(IsSplit(heap, heap[o].iter[i]) /\ IsSplit(heap, heap[o].iter[i + 1]))

\* C24: a successful REDUCE gives every list, set, frozenset and dict that its
\* arguments reach, through containers and operation records, exactly one
\* PY_SPLIT of the new REDUCE record at its end, also in a shared or cyclic
\* graph; tuples are left as they are; a PY_SPLIT at the end of a container
\* is replaced, and no container holds two PY_SPLIT next to each other.
C24_SplitOnce ==
    /\ []NoAdjacentSplits
    /\ [][(Ran("OP_REDUCE") /\ lastop'.ok) => SplitsPlaced]_vars

\* the second REDUCE over a list that holds itself replaced the PY_SPLIT of
\* the first
C24_Witness ==
    /\ phase = "run" /\ lastop.code = "OP_REDUCE" /\ lastop.ok
    /\ \E l \in DOMAIN heap :
          /\ heap[l].type = "PY_LIST" /\ l \in Range(heap[l].iter)
          /\ IsSplit(heap, Last(heap[l].iter))
          /\ \E sp \in DOMAIN heap : heap[sp].type = "PY_SPLIT" /\ ~heap[sp].live

\* C25: tearing down the machine state, the memo by py_obj_free and then the
\* stacks by deep free, hands no free function an object or operation record
\* that was released before: nothing is released twice, nothing is read or
\* decremented after its release.
C25_TeardownClean ==
    [][phase' \in {"freed", "crashed"} =>
          /\ ~empty_state(S).bad
          /\ phase' = "freed"]_vars

\* a graph of two REDUCE over a list that holds itself, with its PY_SPLIT,
\* was torn down and all of it is released
C25_Witness ==
    /\ phase = "freed" /\ lastop.code = "OP_REDUCE" /\ lastop.ok
    /\ Len(opers) >= 3
    /\ \E o \in DOMAIN heap : heap[o].type = "PY_LIST"
    /\ \E o \in DOMAIN heap : heap[o].type = "PY_SPLIT"
    /\ \A o \in DOMAIN heap : ~heap[o].live
    /\ \A p \in DOMAIN opers : ~opers[p].live

\* places of the sequence seq that hold x, tagged
PlacesIn(tag, n, seq, x) == {<<tag, n, i>> : i \in {j \in DOMAIN seq : seq[j] = x}}
\* the owning references to the object o: places of the main stack, of the
\* saved stacks and of popstack, memo slots, elements of live containers,
\* arguments of live operation records, module and name of live PY_FUNC
OwningRefs(o) ==
    PlacesIn("stack", 0, stack, o) \cup PlacesIn("popstack", 0, popstack, o)
    \cup UNION {PlacesIn("metastack", m, metastack[m], o) : m \in DOMAIN metastack}
    \cup {<<"memo", k, 0>> : k \in {x \in DOMAIN memo : memo[x] = o}}
    \cup UNION {PlacesIn("iter", c, heap[c].iter, o) : c \in {x \in DOMAIN heap : heap[x].live}}
    \cup UNION {PlacesIn("oper", p, opers[p].stack, o) : p \in {x \in DOMAIN opers : opers[x].live}}
    \cup {<<"module", f, 0>> : f \in {x \in DOMAIN heap : heap[x].live /\ heap[x].module = o}}
    \cup {<<"name", f, 0>> : f \in {x \in DOMAIN heap : heap[x].live /\ heap[x].name = o}}
\* the references to the operation record p: places in histories of live
\* PY_WHAT, reduce fields of live PY_SPLIT
OperRefs(p) ==
    UNION {PlacesIn("what", w, heap[w].what, p) : w \in {x \in DOMAIN heap : heap[x].live}}
    \cup {<<"split", sp, 0>> : sp \in {x \in DOMAIN heap : heap[x].live /\ heap[x].reduce = p}}

\* C26: after successful opcodes refcnt + 1 of every live object is the number
\* of owning references to it, and refcnt + 1 of every live operation record
\* is the number of PY_WHAT histories and PY_SPLIT that refer to it.
C26_RefcntExact ==
    phase = "run" =>
        /\ \A o \in DOMAIN heap :
              heap[o].live => heap[o].refcnt + 1 = Cardinality(OwningRefs(o))
        /\ \A p \in DOMAIN opers :
              opers[p].live => opers[p].refcnt + 1 = Cardinality(OperRefs(p))

\* after a REDUCE over a memoized list that holds itself: an object with
\* more than two references, a PY_SPLIT in a container and an operation
\* record that a PY_SPLIT refers to
C26_Witness ==
    /\ phase = "run" /\ lastop.code = "OP_REDUCE" /\ lastop.ok
    /\ \E o \in DOMAIN heap : heap[o].live /\ heap[o].refcnt >= 2
    /\ \E sp \in DOMAIN heap :
          /\ heap[sp].live /\ heap[sp].type = "PY_SPLIT"
          /\ opers[heap[sp].reduce].live /\ opers[heap[sp].reduce].refcnt = 1

\* opcodes that upgrade the object they work on to a PY_WHAT
Upgraders == {"OP_REDUCE", "OP_BUILD", "OP_NEWOBJ", "OP_APPEND", "OP_SETITEM",
              "OP_APPENDS", "OP_SETITEMS", "OP_ADDITEMS"}
\* the PY_WHAT this step made, and the object each of them wraps
NewWhats == {w \in (DOMAIN heap') \ (DOMAIN heap) : heap'[w].type = "PY_WHAT"}
Wrapped(w) == opers'[heap'[w].what[1]].stack[1]
\* the object on the stack or in the memo, after the step
HeldAfter ==
    Range(stack') \cup Range(memo')
        \cup UNION {Range(metastack'[i]) : i \in DOMAIN metastack'}

\* C27: when REDUCE, BUILD, NEWOBJ, APPEND, SETITEM, APPENDS, SETITEMS or
\* ADDITEMS upgrades an object that a memo slot or another stack place holds
\* too, these hold the PY_WHAT afterwards and not the object it wraps.
C27_UpgradeSeenByAll ==
    [][\A c \in Upgraders :
          (Ran(c) /\ lastop'.ok) =>
              \A w \in NewWhats :
                  /\ Wrapped(w) \notin HeldAfter
                  /\ \A k \in DOMAIN memo : memo[k] = Wrapped(w) => memo'[k] = w]_vars

\* the objects an opcode needs on the current stack
Needs ==
    [c \in {"OP_TUPLE1", "OP_TUPLE2", "OP_TUPLE3", "OP_REDUCE", "OP_BUILD", "OP_NEWOBJ"} |->
        CASE c = "OP_TUPLE1" -> 1 [] c = "OP_TUPLE3" -> 3 [] OTHER -> 2]
\* the step left stacks and memo with the same objects in the same order,
\* and every object of the variant it had
StateKept ==
    /\ stack' = stack /\ metastack' = metastack /\ popstack' = popstack
    /\ memo' = memo
    /\ \A o \in DOMAIN heap : heap'[o].type = heap[o].type

\* C28: TUPLE1/2/3 on fewer than N objects and REDUCE, BUILD, NEWOBJ on fewer
\* than two objects fail and leave the main stack, metastack, popstack and
\* memo as they were, with no object changed in variant.
C28_TooFewKeepsState ==
    [][\A c \in DOMAIN Needs :
          (Ran(c) /\ Len(stack) < Needs[c]) => (~lastop'.ok /\ StateKept)]_vars

\* C29: MEMOIZE and BINPUT / LONG_BINPUT on an empty current stack fail and
\* add no entry to the memo.
C29_MemoPutNeedsObject ==
    [][\A c \in {"OP_MEMOIZE", "OP_BINPUT"} :
          (Ran(c) /\ stack = <<>>) =>
              /\ ~lastop'.ok /\ phase' = "failed"
              /\ memo' = memo]_vars

\* objects the renderer gave a variable name
Named == {o \in DOMAIN heap : heap[o].varname # <<>>}

\* C30: in the rendered output two different objects never have the same
\* variable name.
C30_NamesInjective ==
    phase = "dumped" =>
        \A o, q \in Named : o # q => heap[o].varname # heap[q].varname
====
